---------------------------- MODULE Spec2Model ----------------------------
(***************************************************************************)
(* WAVEmbedder: the RIFF LIST/INFO chunk builder and splicer of embed.py,  *)
(* the positional spreadsheet decoder of metadata.py, and the matching and *)
(* embed loops of main.py.                                                 *)
(*                                                                         *)
(* Text is a sequence of Unicode code points, bytes are a sequence of      *)
(* 0..255.  A Python dict is a sequence of <<key, value>> pairs with       *)
(* distinct keys, in insertion order.                                      *)
(***************************************************************************)
EXTENDS Integers, Sequences, FiniteSets, TLC

VARIABLES
    pc,             \* position of the operation being run
    metadata_dict,  \* embed.py: the metadata_dict argument
    entries,        \* embed.py: the encode_riff_info calls made, in order
    metadata_bytes, \* embed.py:17 metadata_bytes
    list_chunk,     \* embed.py:38 list_chunk
    wav_data,       \* embed.py:42 the bytes of the file at input_wav_path
    output_wav,     \* the file at output_wav_path: NoFile until it is written
    error,          \* the message of the RuntimeError raised, "" for none
    pos,            \* embed.py:49 pos, as the scan left it
    fmt_end,        \* embed.py:50 fmt_end, as the scan left it
    format,         \* metadata.py:22-26 the extension of file_path
    sheets,         \* the rows of the data file: per sheet (xlsx), or its lines (csv)
    metadata_list,  \* metadata.py:31/77 metadata_list, as returned
    parse_error,    \* the message of the ValueError raised, "" for none
    row,            \* metadata.py:120/141 the row argument
    writers,        \* metadata.py:122 writers, as returned
    publishers,     \* metadata.py:143 publishers, as returned
    wav_files,      \* main.py:21 st.session_state.wav_files
    fs,             \* the files on disk: path -> bytes, NoFile when there is none
    original_files, \* the audio files as they were when the embed run began
    idx,            \* main.py:239 the place of file_info in wav_files, from 1
    file_data,      \* main.py:222 file_wrapper.data
    processed_data, \* main.py:251 processed_data
    errors,         \* main.py:238 errors, as <<original_path, message>>
    embedding_completed  \* main.py:264 st.session_state.embedding_completed

buildVars == <<metadata_dict, entries, metadata_bytes, list_chunk>>

spliceVars == <<wav_data, output_wav, error, pos, fmt_end>>

decodeVars == <<format, sheets, metadata_list, parse_error>>

groupVars == <<row, writers, publishers>>

embedVars == <<fs, original_files, idx, file_data, processed_data, errors,
               embedding_completed>>

vars == <<pc, buildVars, spliceVars, decodeVars, groupVars, wav_files, embedVars>>

----------------------------------------------------------------------------
(* Bounds *)

\* longest metadata value, in code points
MaxValueLen == 1

\* most chunks after the RIFF header of a buffer
MaxChunks == 2

\* largest declared size of a chunk of a buffer
MaxChunkSize == 2

\* most bytes missing from the end of a buffer
MaxCut == 2

\* most rows of a data file
MaxRows == 3

\* most data lines of the data file that is matched against the audio files
MaxRecords == 2

\* most audio files in the list
MaxFiles == 2

\* the most cells of a row whose writer groups are read
MaxRowLen == 68

----------------------------------------------------------------------------
(* Text and bytes *)

RECURSIVE Concat(_)
\* b"".join(parts) / "".join(parts)
Concat(parts) ==
    IF parts = <<>> THEN <<>> ELSE Head(parts) \o Concat(Tail(parts))

RECURSIVE Join(_, _)
\* sep.join(parts)
Join(sep, parts) ==
    IF parts = <<>> THEN <<>>
    ELSE IF Len(parts) = 1 THEN parts[1]
    ELSE parts[1] \o sep \o Join(sep, Tail(parts))

\* s[a:b] for 0 <= a, 0 <= b: Python clamps both ends to len(s)
Slice(s, a, b) ==
    LET lo == IF a > Len(s) THEN Len(s) ELSE a
        hi == IF b > Len(s) THEN Len(s) ELSE b
    IN  IF hi <= lo THEN <<>> ELSE SubSeq(s, lo + 1, hi)

\* one code point's UTF-8 bytes
Utf8Char(c) ==
    IF c < 128 THEN <<c>>
    ELSE IF c < 2048 THEN <<192 + (c \div 64), 128 + (c % 64)>>
    ELSE IF c < 65536
         THEN <<224 + (c \div 4096), 128 + ((c \div 64) % 64), 128 + (c % 64)>>
    ELSE <<240 + (c \div 262144), 128 + ((c \div 4096) % 64),
           128 + ((c \div 64) % 64), 128 + (c % 64)>>

RECURSIVE Utf8(_)
\* value.encode("utf-8")
Utf8(s) == IF s = <<>> THEN <<>> ELSE Utf8Char(Head(s)) \o Utf8(Tail(s))

\* n.to_bytes(4, "little"), for n < 2^32
ToBytes4(n) ==
    <<n % 256, (n \div 256) % 256, (n \div 65536) % 256, (n \div 16777216) % 256>>

RECURSIVE FromBytes(_)
\* int.from_bytes(b, "little"), of any length (a slice may come up short)
FromBytes(b) == IF b = <<>> THEN 0 ELSE Head(b) + 256 * FromBytes(Tail(b))

\* ASCII literals of embed.py
TagLIST == <<76, 73, 83, 84>>
TagINFO == <<73, 78, 70, 79>>
TagINAM == <<73, 78, 65, 77>>
TagIART == <<73, 65, 82, 84>>
TagIALB == <<73, 65, 76, 66>>
TagICMT == <<73, 67, 77, 84>>
LabelBPM == <<66, 80, 77, 58, 32>>                                 \* "BPM: "
LabelKey == <<75, 101, 121, 58, 32>>                               \* "Key: "
LabelPublishers == <<80, 117, 98, 108, 105, 115, 104, 101, 114, 115, 58, 32>>
CommentSep == <<32, 124, 32>>                                      \* " | "

----------------------------------------------------------------------------
(* Python dict *)

\* key in d
Has(d, k) == \E i \in 1..Len(d) : d[i][1] = k

\* d[key], for a key that is in d
Get(d, k) == d[CHOOSE i \in 1..Len(d) : d[i][1] = k][2]

----------------------------------------------------------------------------
(* embed.py: add_riff_metadata, the chunk builder *)

\* encode_riff_info(tag, value)
encode_riff_info(tag, value) ==
    LET raw == Utf8(value)
        value_bytes == IF Len(raw) % 2 = 1 THEN raw \o <<0>> ELSE raw
        size == Len(value_bytes)
    IN  tag \o ToBytes4(size) \o value_bytes

\* a build that lists the key before the tempo
CommentsKeyFirst(d) ==
    (IF Has(d, "Key") THEN <<LabelKey \o Get(d, "Key")>> ELSE <<>>)
    \o (IF Has(d, "BPM") THEN <<LabelBPM \o Get(d, "BPM")>> ELSE <<>>)
    \o (IF Has(d, "Publishers")
        THEN <<LabelPublishers \o Get(d, "Publishers")>> ELSE <<>>)

\* the comments list, embed.py:24-30
Comments(d) ==
    (IF Has(d, "BPM") THEN <<LabelBPM \o Get(d, "BPM")>> ELSE <<>>)
    \o (IF Has(d, "Key") THEN <<LabelKey \o Get(d, "Key")>> ELSE <<>>)
    \o (IF Has(d, "Publishers")
        THEN <<LabelPublishers \o Get(d, "Publishers")>> ELSE <<>>)

\* the encode_riff_info calls of one build, as <<tag, value>>, in call order
InfoCalls(d) ==
    (IF Has(d, "Track Title") THEN <<<<TagINAM, Get(d, "Track Title")>>>> ELSE <<>>)
    \o (IF Has(d, "Composers") THEN <<<<TagIART, Get(d, "Composers")>>>> ELSE <<>>)
    \o (IF Has(d, "Source Program")
        THEN <<<<TagIALB, Get(d, "Source Program")>>>> ELSE <<>>)
    \o (IF Comments(d) # <<>>
        THEN <<<<TagICMT, Join(CommentSep, Comments(d))>>>> ELSE <<>>)

\* what each call returned
InfoEntries(d) ==
    LET calls == InfoCalls(d)
    IN  [i \in 1..Len(calls) |->
            [tag |-> calls[i][1], value |-> calls[i][2],
             bytes |-> encode_riff_info(calls[i][1], calls[i][2])]]

\* metadata_bytes, embed.py:17-33
MetadataBytes(d) ==
    LET es == InfoEntries(d)
    IN  Concat([i \in 1..Len(es) |-> es[i].bytes])

\* a build whose size field leaves out the "INFO" literal
ListChunkSizeOfEntries(d) ==
    TagLIST \o ToBytes4(Len(MetadataBytes(d))) \o TagINFO \o MetadataBytes(d)

\* list_chunk, embed.py:35-38
ListChunk(d) ==
    LET list_chunk_data == TagINFO \o MetadataBytes(d)
        list_chunk_size == Len(list_chunk_data)
    IN  TagLIST \o ToBytes4(list_chunk_size) \o list_chunk_data

----------------------------------------------------------------------------
(* embed.py: add_riff_metadata, the splice *)

TagRIFF == <<82, 73, 70, 70>>
TagWAVE == <<87, 65, 86, 69>>
TagFmt == <<102, 109, 116, 32>>                                    \* "fmt "
\* the messages of the two RuntimeErrors, embed.py:46 and :59
NotWav == "Not a valid WAV file."
NoFmt == "No 'fmt ' chunk found."

\* Python's None; a file that does not exist
None == -1
NoFile == <<-1>>

\* a check that rejects only a buffer with both literals wrong
ValidHeaderEither(wav) == Slice(wav, 0, 4) = TagRIFF \/ Slice(wav, 8, 12) = TagWAVE

\* embed.py:45
ValidHeader(wav) == Slice(wav, 0, 4) = TagRIFF /\ Slice(wav, 8, 12) = TagWAVE

RECURSIVE ScanOneByteShort(_, _)
\* a scan that stops one header short of the end of the buffer
ScanOneByteShort(wav, p) ==
    IF p + 8 < Len(wav)
    THEN LET chunk_id == Slice(wav, p, p + 4)
             chunk_size == FromBytes(Slice(wav, p + 4, p + 8))
         IN  IF chunk_id = TagFmt
             THEN [pos |-> p, fmt_end |-> p + 8 + chunk_size]
             ELSE ScanOneByteShort(wav, p + 8 + chunk_size)
    ELSE [pos |-> p, fmt_end |-> None]

RECURSIVE Scan(_, _)
\* the while loop of embed.py:51-57, entered with pos = p
Scan(wav, p) ==
    IF p + 8 <= Len(wav)
    THEN LET chunk_id == Slice(wav, p, p + 4)
             chunk_size == FromBytes(Slice(wav, p + 4, p + 8))
         IN  IF chunk_id = TagFmt
             THEN [pos |-> p, fmt_end |-> p + 8 + chunk_size]
             ELSE Scan(wav, p + 8 + chunk_size)
    ELSE [pos |-> p, fmt_end |-> None]

\* new_wav_data, embed.py:62
NewWavData(wav, chunk, at) ==
    Slice(wav, 0, at) \o chunk \o Slice(wav, at, Len(wav))

\* add_riff_metadata from embed.py:40 on: what it raises, what it writes to
\* output_wav_path (NoFile: nothing), and its locals as it ends
Splice(wav, chunk) ==
    IF ~ValidHeader(wav)
    THEN [error |-> NotWav, output |-> NoFile, pos |-> None, fmt_end |-> None]
    ELSE LET scan == Scan(wav, 12)
         IN  IF scan.fmt_end = None
             THEN [error |-> NoFmt, output |-> NoFile,
                   pos |-> scan.pos, fmt_end |-> None]
             ELSE [error |-> "", output |-> NewWavData(wav, chunk, scan.fmt_end),
                   pos |-> scan.pos, fmt_end |-> scan.fmt_end]

----------------------------------------------------------------------------
(* metadata.py: the spreadsheet decoder *)

\* A cell is a str (csv, xlsx), an int or None (xlsx).
StrCell(t) == [kind |-> "str", text |-> t]
IntCell(n) == [kind |-> "int", n |-> n]
NoneCell == [kind |-> "none"]

RECURSIVE Digits(_)
\* str(n) for an int n >= 0
Digits(n) == IF n < 10 THEN <<48 + n>> ELSE Digits(n \div 10) \o <<48 + (n % 10)>>

\* str.isspace of one code point
IsSpace(c) == c \in {9, 10, 11, 12, 13, 28, 29, 30, 31, 32, 133, 160}

RECURSIVE LStrip(_)
LStrip(t) == IF t # <<>> /\ IsSpace(Head(t)) THEN LStrip(Tail(t)) ELSE t

RECURSIVE RStrip(_)
RStrip(t) ==
    IF t # <<>> /\ IsSpace(t[Len(t)]) THEN RStrip(SubSeq(t, 1, Len(t) - 1)) ELSE t

\* str.strip()
Strip(t) == RStrip(LStrip(t))

\* str(value)
Str(cell) == IF cell.kind = "int" THEN Digits(cell.n) ELSE cell.text

\* _safe_get(row, index); index counts from 0
_safe_get(r, index) ==
    IF index + 1 > Len(r) THEN <<>>
    ELSE IF r[index + 1].kind = "none" THEN <<>>
    ELSE Strip(Str(r[index + 1]))

\* filter(None, parts)
NonEmpty(parts) == SelectSeq(parts, LAMBDA t : t # <<>>)

Space == <<32>>

\* a formatter that puts the CAE number before the PRO
FormatWriterCaeFirst(first, middle, last, pro, cae, share) ==
    IF first = <<>> /\ middle = <<>> /\ last = <<>> THEN <<>>
    ELSE Join(Space,
              <<Strip(Join(Space, NonEmpty(<<first, middle, last>>)))>>
              \o (IF cae # <<>> THEN <<<<91>> \o cae \o <<93>>>> ELSE <<>>)
              \o (IF pro # <<>> THEN <<<<40>> \o pro \o <<41>>>> ELSE <<>>)
              \o (IF share # <<>> THEN <<share \o <<37>>>> ELSE <<>>))

\* _format_writer: the text returned.  None and "" are both returned as <<>>:
\* the only caller tests the result for truth (metadata.py:136).
_format_writer(first, middle, last, pro, cae, share) ==
    IF first = <<>> /\ middle = <<>> /\ last = <<>> THEN <<>>
    ELSE Join(Space,
              <<Strip(Join(Space, NonEmpty(<<first, middle, last>>)))>>
              \o (IF pro # <<>> THEN <<<<40>> \o pro \o <<41>>>> ELSE <<>>)
              \o (IF cae # <<>> THEN <<<<91>> \o cae \o <<93>>>> ELSE <<>>)
              \o (IF share # <<>> THEN <<share \o <<37>>>> ELSE <<>>))

\* _format_publisher: the text returned, None as <<>> (metadata.py:155)
_format_publisher(name, pro, cae, share) ==
    IF name = <<>> THEN <<>>
    ELSE Join(Space,
              <<name>>
              \o (IF pro # <<>> THEN <<<<40>> \o pro \o <<41>>>> ELSE <<>>)
              \o (IF cae # <<>> THEN <<<<91>> \o cae \o <<93>>>> ELSE <<>>)
              \o (IF share # <<>> THEN <<share \o <<37>>>> ELSE <<>>))

RECURSIVE WritersFromLateBreak(_, _, _)
\* a loop that still reads a group whose last cell is one past the row
WritersFromLateBreak(r, start_idx, i) ==
    LET offset == start_idx + (i * 10)
        writer == _format_writer(_safe_get(r, offset), _safe_get(r, offset + 1),
                                 _safe_get(r, offset + 2), _safe_get(r, offset + 3),
                                 _safe_get(r, offset + 4), _safe_get(r, offset + 5))
    IN  IF i >= 5 \/ offset + 5 > Len(r) THEN <<>>
        ELSE (IF writer # <<>> THEN <<writer>> ELSE <<>>)
             \o WritersFromLateBreak(r, start_idx, i + 1)

RECURSIVE WritersFrom(_, _, _)
\* the loop of _parse_writers from its i-th round on
WritersFrom(r, start_idx, i) ==
    LET offset == start_idx + (i * 10)
        writer == _format_writer(_safe_get(r, offset), _safe_get(r, offset + 1),
                                 _safe_get(r, offset + 2), _safe_get(r, offset + 3),
                                 _safe_get(r, offset + 4), _safe_get(r, offset + 5))
    IN  IF i >= 5 \/ offset + 5 >= Len(r) THEN <<>>
        ELSE (IF writer # <<>> THEN <<writer>> ELSE <<>>)
             \o WritersFrom(r, start_idx, i + 1)

\* _parse_writers(row, start_idx)
_parse_writers(r, start_idx) == WritersFrom(r, start_idx, 0)

RECURSIVE PublishersFrom(_, _, _)
\* the loop of _parse_publishers from its i-th round on
PublishersFrom(r, start_idx, i) ==
    LET offset == start_idx + (i * 10)
        publisher == _format_publisher(_safe_get(r, offset), _safe_get(r, offset + 1),
                                       _safe_get(r, offset + 2), _safe_get(r, offset + 3))
    IN  IF i >= 5 \/ offset + 3 >= Len(r) THEN <<>>
        ELSE (IF publisher # <<>> THEN <<publisher>> ELSE <<>>)
             \o PublishersFrom(r, start_idx, i + 1)

\* _parse_publishers(row, start_idx)
_parse_publishers(r, start_idx) == PublishersFrom(r, start_idx, 0)

\* the fewest cells of a row that is decoded, metadata.py:41 and :86
MinCells == 34

\* a gate that also turns away the rows of exactly 34 cells
RowSkippedAtMin(r) == Len(r) <= MinCells

\* metadata.py:41 and :86: the row is skipped
RowSkipped(r) == Len(r) < MinCells

\* TrackMetadata(...), metadata.py:45-53 and :90-98
TrackMetadata(r) ==
    [filename_from_data |-> _safe_get(r, 0),
     track_title |-> _safe_get(r, 1),
     source_program |-> _safe_get(r, 2),
     bpm |-> _safe_get(r, 4),
     key |-> _safe_get(r, 5),
     writers |-> _parse_writers(r, 12),
     publishers |-> _parse_publishers(r, 18)]

RECURSIVE ParseRows(_)
\* the row loop, metadata.py:40-64 and :85-109
ParseRows(rs) ==
    IF rs = <<>> THEN <<>>
    ELSE (IF RowSkipped(Head(rs)) THEN <<>> ELSE <<TrackMetadata(Head(rs))>>)
         \o ParseRows(Tail(rs))

\* the messages of the ValueErrors of metadata.py:26, :67, :112
Unsupported == "Unsupported file format"
CsvError == "Error parsing CSV file"

\* _parse_excel: every row of every sheet, in sheet order
_parse_excel(shs) == [error |-> "", list |-> ParseRows(Concat(shs))]

\* _parse_csv: next(reader) drops the first line, and raises StopIteration on a
\* file with no line, which the except clause turns into the ValueError
_parse_csv(shs) ==
    IF Concat(shs) = <<>> THEN [error |-> CsvError, list |-> <<>>]
    ELSE [error |-> "", list |-> ParseRows(Tail(Concat(shs)))]

\* parse_spreadsheet(file_path)
parse_spreadsheet(fmt, shs) ==
    IF fmt = "xlsx" THEN _parse_excel(shs)
    ELSE IF fmt = "csv" THEN _parse_csv(shs)
    ELSE [error |-> Unsupported, list |-> <<>>]

----------------------------------------------------------------------------
(* main.py: the metadata matching loop *)

\* str.lower() of one code point: ASCII and Latin-1 capitals
LowerChar(c) ==
    IF (c >= 65 /\ c <= 90) \/ (c >= 192 /\ c <= 222 /\ c # 215) THEN c + 32 ELSE c

\* str.lower()
Lower(t) == [i \in 1..Len(t) |-> LowerChar(t[i])]

\* p in t, for two strs
IsSubstring(p, t) ==
    \E i \in 0..(Len(t) - Len(p)) : SubSeq(t, i + 1, i + Len(p)) = p

Underscore == <<95>>
CommaSpace == <<44, 32>>

MetadataKeys == {"Track Title", "Source Program", "BPM", "Key", "Composers", "Publishers"}

\* new_entry.update({...}) with the six fields of record m, main.py:134-141
WithRecord(entry, m) ==
    [entry EXCEPT !["Track Title"] = m.track_title,
                  !["Source Program"] = m.source_program,
                  !["BPM"] = m.bpm,
                  !["Key"] = m.key,
                  !["Composers"] = Join(CommaSpace, m.writers),
                  !["Publishers"] = Join(CommaSpace, m.publishers)]

RECURSIVE TitleMatchLast(_, _, _)
\* a loop without the break: the last matching record wins
TitleMatchLast(entry, ml, audio_filename) ==
    IF ml = <<>> THEN entry
    ELSE IF IsSubstring(Lower(Head(ml).track_title) \o Underscore, audio_filename)
         THEN TitleMatchLast(WithRecord(entry, Head(ml)), Tail(ml), audio_filename)
         ELSE TitleMatchLast(entry, Tail(ml), audio_filename)

RECURSIVE TitleMatch(_, _, _)
\* the loop of main.py:131-142 over the records ml
TitleMatch(entry, ml, audio_filename) ==
    IF ml = <<>> THEN entry
    ELSE IF IsSubstring(Lower(Head(ml).track_title) \o Underscore, audio_filename)
         THEN WithRecord(entry, Head(ml))
         ELSE TitleMatch(entry, Tail(ml), audio_filename)

RECURSIVE FilenameMatch(_, _, _)
\* the loop of main.py:145-148 over the records ml
FilenameMatch(entry, ml, audio_filename) ==
    IF ml = <<>> THEN entry
    ELSE IF IsSubstring(Lower(Head(ml).filename_from_data), audio_filename)
         THEN [entry EXCEPT !["Filename From Data"] = Head(ml).filename_from_data]
         ELSE FilenameMatch(entry, Tail(ml), audio_filename)

\* one round of the loop of main.py:116-150: the new_entry of file_info
MatchFile(file_info, ml) ==
    LET audio_filename == Lower(file_info["Uploaded Audio"])
        reset == [k \in DOMAIN file_info |->
                    IF k \in MetadataKeys THEN <<>> ELSE file_info[k]]
    IN  FilenameMatch(TitleMatch(reset, ml, audio_filename), ml, audio_filename)

RECURSIVE Less(_, _)
\* a < b, for two strs
Less(a, b) ==
    IF b = <<>> THEN FALSE
    ELSE IF a = <<>> THEN TRUE
    ELSE IF Head(a) # Head(b) THEN Head(a) < Head(b)
    ELSE Less(Tail(a), Tail(b))

\* the sort key of main.py:163
TitleKey(file_info) ==
    IF file_info["Track Title"] # <<>> THEN Lower(file_info["Track Title"])
    ELSE <<122, 122, 122, 122, 122>>

RECURSIVE Sorted(_)
\* sorted(files, key=TitleKey): stable
Sorted(files) ==
    IF files = <<>> THEN <<>>
    ELSE LET rest == Sorted(SubSeq(files, 1, Len(files) - 1))
             x == files[Len(files)]
             \* x goes behind every entry whose key is not greater than its own
             n == Cardinality({i \in 1..Len(rest) : ~Less(TitleKey(x), TitleKey(rest[i]))})
         IN  SubSeq(rest, 1, n) \o <<x>> \o SubSeq(rest, n + 1, Len(rest))

----------------------------------------------------------------------------
(* The mappings the builder is run on *)

Fields == {"Track Title", "Source Program", "BPM", "Key", "Composers", "Publishers"}

\* the key order of the embed loop's dict, main.py:246
AppKeyOrder == <<"Track Title", "Source Program", "BPM", "Key", "Composers", "Publishers">>

Reverse(s) == [i \in 1..Len(s) |-> s[Len(s) + 1 - i]]

KeyOrders == {AppKeyOrder, Reverse(AppKeyOrder)}

\* "A" is one UTF-8 byte, "e-acute" (233) is two
Alphabet == {65, 233}

\* the texts of at most n code points: "A"s, the last one possibly "e-acute", so
\* that the UTF-8 length runs over 0..n+1 and differs from the text's length
Texts(n) ==
    {[i \in 1..k |-> IF i = k THEN c ELSE 65] : k \in 0..n, c \in Alphabet}

Values == Texts(MaxValueLen)

\* no text holds a negative code point
Absent == <<-1>>

RECURSIVE DictOf(_, _)
\* the dict holding, in this key order, the keys that val does not leave out
DictOf(order, val) ==
    IF order = <<>> THEN <<>>
    ELSE (IF val[Head(order)] = Absent THEN <<>>
          ELSE <<<<Head(order), val[Head(order)]>>>>)
         \o DictOf(Tail(order), val)

----------------------------------------------------------------------------
(* The builder on its own *)

EmbedIdle ==
    /\ fs = <<>>
    /\ original_files = <<>>
    /\ idx = 0
    /\ file_data = <<>>
    /\ processed_data = <<>>
    /\ errors = <<>>
    /\ embedding_completed = FALSE

SpliceIdle ==
    /\ EmbedIdle
    /\ wav_data = <<>>
    /\ output_wav = NoFile
    /\ error = ""
    /\ pos = None
    /\ fmt_end = None

DecodeIdle ==
    /\ format = ""
    /\ sheets = <<>>
    /\ metadata_list = <<>>
    /\ parse_error = ""

GroupIdle ==
    /\ row = <<>>
    /\ writers = <<>>
    /\ publishers = <<>>
    /\ wav_files = <<>>

BuildIdle ==
    /\ metadata_dict = <<>>
    /\ entries = <<>>
    /\ metadata_bytes = <<>>
    /\ list_chunk = <<>>

BuildInit ==
    /\ pc = "build"
    /\ SpliceIdle
    /\ DecodeIdle
    /\ GroupIdle
    /\ \E o \in KeyOrders, v \in [Fields -> Values \cup {Absent}] :
          metadata_dict = DictOf(o, v)
    /\ entries = <<>>
    /\ metadata_bytes = <<>>
    /\ list_chunk = <<>>

\* embed.py:16-38
Build ==
    /\ pc = "build"
    /\ entries' = InfoEntries(metadata_dict)
    /\ metadata_bytes' = MetadataBytes(metadata_dict)
    /\ list_chunk' = ListChunk(metadata_dict)
    /\ pc' = "built"
    /\ UNCHANGED <<metadata_dict, spliceVars, decodeVars, groupVars, wav_files, embedVars>>

BuildNext == Build

SpecBuild == BuildInit /\ [][BuildNext]_vars

----------------------------------------------------------------------------
(* The buffers add_riff_metadata is run on *)

TagData == <<100, 97, 116, 97>>

\* a chunk as a writer lays it out: id, declared size, payload, and a pad byte
\* after an odd payload when the writer pads.  The payload bytes differ from
\* chunk to chunk (n is the chunk's number) and from byte to byte.
ChunkBytes(c, n) ==
    c.id \o ToBytes4(c.size) \o [j \in 1..c.size |-> 16 * n + j]
    \o (IF c.padded /\ c.size % 2 = 1 THEN <<0>> ELSE <<>>)

ChunkDescs ==
    {c \in [id : {TagFmt, TagData}, size : 0..MaxChunkSize, padded : BOOLEAN] :
        c.padded => c.size % 2 = 1}

ChunkLists == UNION {[1..k -> ChunkDescs] : k \in 0..MaxChunks}

Body(cs) == Concat([n \in 1..Len(cs) |-> ChunkBytes(cs[n], n)])

\* "RIFF" size "WAVE", the same with either literal spoilt, and files too short
\* to hold the header
Headers(n) ==
    {TagRIFF \o ToBytes4(n + 4) \o TagWAVE,
     <<82, 73, 70, 88>> \o ToBytes4(n + 4) \o TagWAVE,
     TagRIFF \o ToBytes4(n + 4) \o <<87, 65, 86, 88>>,
     TagRIFF \o ToBytes4(n + 4),
     <<>>}

\* the mappings of the splice runs: none, and all six fields
SpliceDicts ==
    {<<>>, DictOf(AppKeyOrder, [k \in Fields |-> IF k = "BPM" THEN <<>> ELSE <<65>>])}

----------------------------------------------------------------------------
(* add_riff_metadata on its own *)

SpliceInit ==
    /\ pc = "add_riff_metadata"
    /\ metadata_dict \in SpliceDicts
    /\ entries = <<>>
    /\ metadata_bytes = <<>>
    /\ list_chunk = <<>>
    /\ \E cs \in ChunkLists, cut \in 0..MaxCut :
          \E h \in Headers(Len(Body(cs))) :
             wav_data = Slice(h \o Body(cs), 0, Len(h \o Body(cs)) - cut)
    /\ output_wav = NoFile
    /\ error = ""
    /\ pos = None
    /\ fmt_end = None
    /\ EmbedIdle
    /\ DecodeIdle
    /\ GroupIdle

\* embed.py:7-65
AddRiffMetadata ==
    /\ pc = "add_riff_metadata"
    /\ entries' = InfoEntries(metadata_dict)
    /\ metadata_bytes' = MetadataBytes(metadata_dict)
    /\ list_chunk' = ListChunk(metadata_dict)
    /\ LET r == Splice(wav_data, ListChunk(metadata_dict))
       IN  /\ error' = r.error
           /\ output_wav' = r.output
           /\ pos' = r.pos
           /\ fmt_end' = r.fmt_end
    /\ pc' = "returned"
    /\ UNCHANGED <<metadata_dict, wav_data, decodeVars, groupVars, wav_files, embedVars>>

SpliceNext == AddRiffMetadata

SpecSplice == SpliceInit /\ [][SpliceNext]_vars

----------------------------------------------------------------------------
(* The rows the decoder is run on *)

\* a row of n cells: the given cells at their 0-based columns, "" elsewhere
MakeRow(n, cells) ==
    [i \in 1..n |-> IF (i - 1) \in DOMAIN cells THEN cells[i - 1] ELSE StrCell(<<>>)]

TextJane == <<74, 97, 110, 101>>
TextASCAP == <<65, 83, 67, 65, 80>>
TextAcmePub == <<65, 99, 109, 101, 32, 80, 117, 98>>
Text123 == <<49, 50, 51>>
Text50 == <<53, 48>>

\* rows of 2, 33, 34 and 35 cells, told apart by their first two cells
DecodeRows ==
    {MakeRow(n, (0 :> StrCell(<<102, 48 + t>>) @@ 1 :> StrCell(<<84, 48 + t>>)
                 @@ 4 :> IntCell(120 + t) @@ 12 :> StrCell(TextJane))) :
        n \in {2, MinCells - 1, MinCells, MinCells + 1}, t \in 1..2}

RowLists == UNION {[1..k -> DecodeRows] : k \in 0..MaxRows}

\* a 34-cell row with one writer group at columns 12-17 and one publisher
\* group at columns 18-21
GroupRows ==
    {MakeRow(MinCells, (12 :> first @@ 13 :> middle @@ 14 :> last @@ 15 :> pro
                        @@ 16 :> cae @@ 17 :> share @@ 18 :> name @@ 19 :> ppro
                        @@ 20 :> pcae @@ 21 :> pshare)) :
        first \in {StrCell(<<>>), StrCell(TextJane),
                   StrCell(<<32>> \o TextJane \o <<32>>), NoneCell},
        middle \in {StrCell(<<>>), StrCell(<<81>>)},
        last \in {StrCell(<<>>), StrCell(<<68, 111, 101>>)},
        pro \in {StrCell(<<>>), StrCell(TextASCAP)},
        cae \in {StrCell(<<>>), StrCell(Text123)},
        share \in {StrCell(<<>>), StrCell(Text50), IntCell(50)},
        name \in {StrCell(<<>>), StrCell(TextAcmePub), NoneCell},
        ppro \in {StrCell(<<>>), StrCell(<<66, 77, 73>>)},
        pcae \in {StrCell(<<>>), StrCell(Text123)},
        pshare \in {StrCell(<<>>), StrCell(Text50)}}

----------------------------------------------------------------------------
(* parse_spreadsheet on its own *)

DecodeInit ==
    /\ pc = "parse_spreadsheet"
    /\ format \in {"xlsx", "csv", "txt"}
    /\ \E rs \in RowLists, cut \in 0..MaxRows :
          sheets = IF format = "xlsx" /\ cut <= Len(rs)
                   THEN <<SubSeq(rs, 1, cut), SubSeq(rs, cut + 1, Len(rs))>>
                   ELSE <<rs>>
    /\ metadata_list = <<>>
    /\ parse_error = ""
    /\ BuildIdle
    /\ SpliceIdle
    /\ GroupIdle

\* metadata.py:20-117
ParseSpreadsheet ==
    /\ pc = "parse_spreadsheet"
    /\ LET r == parse_spreadsheet(format, sheets)
       IN  /\ metadata_list' = r.list
           /\ parse_error' = r.error
    /\ pc' = "parsed"
    /\ UNCHANGED <<format, sheets, buildVars, spliceVars, groupVars, wav_files, embedVars>>

DecodeNext == ParseSpreadsheet

SpecDecode == DecodeInit /\ [][DecodeNext]_vars

----------------------------------------------------------------------------
(* The writer and publisher groups of one row *)

GroupInit ==
    /\ pc = "parse_writers"
    /\ row \in GroupRows
    /\ writers = <<>>
    /\ publishers = <<>>
    /\ wav_files = <<>>
    /\ BuildIdle
    /\ SpliceIdle
    /\ DecodeIdle

\* metadata.py:51/96 and :120-139
ParseWriters ==
    /\ pc = "parse_writers"
    /\ writers' = _parse_writers(row, 12)
    /\ pc' = "parse_publishers"
    /\ UNCHANGED <<row, publishers, buildVars, spliceVars, decodeVars, wav_files, embedVars>>

\* metadata.py:52/97 and :141-158
ParsePublishers ==
    /\ pc = "parse_publishers"
    /\ publishers' = _parse_publishers(row, 18)
    /\ pc' = "groups_parsed"
    /\ UNCHANGED <<row, writers, buildVars, spliceVars, decodeVars, wav_files, embedVars>>

GroupNext == ParseWriters \/ ParsePublishers

SpecGroups == GroupInit /\ [][GroupNext]_vars

----------------------------------------------------------------------------
(* The writer groups of rows of every length *)

\* what the six cells of a writer group hold: nothing; a first name and a
\* share; a last name only; a PRO and no name
GroupFills == {"empty", "named", "surname", "unnamed"}

\* the first name of the writer in the g-th group of columns: "W0", "W1", ...
WriterName(g) == <<87, 48 + g>>

\* a row of n cells.  The g-th group of ten columns from column 12 on (g from
\* 0) holds a writer in its first six columns, filled as fill[g] says, and a
\* publisher name in its seventh; a sixth group lies behind the five that the
\* decoder reads.
LongRow(n, fill) ==
    [i \in 1..n |->
        LET col == i - 1
            g == (col - 12) \div 10
            k == (col - 12) % 10
        IN  IF col < 12 \/ g > 5 THEN StrCell(<<>>)
            ELSE IF k = 0 /\ fill[g] = "named" THEN StrCell(WriterName(g))
            ELSE IF k = 2 /\ fill[g] = "surname" THEN StrCell(<<68, 48 + g>>)
            ELSE IF k = 3 /\ fill[g] = "unnamed" THEN StrCell(TextASCAP)
            ELSE IF k = 5 /\ fill[g] = "named" THEN IntCell(50)
            ELSE IF k = 6 THEN StrCell(TextAcmePub)
            ELSE StrCell(<<>>)]

LongRowInit ==
    /\ pc = "parse_writers"
    /\ \E n \in 0..MaxRowLen, fill \in [0..5 -> GroupFills] : row = LongRow(n, fill)
    /\ writers = <<>>
    /\ publishers = <<>>
    /\ wav_files = <<>>
    /\ BuildIdle
    /\ SpliceIdle
    /\ DecodeIdle

SpecLongRows == LongRowInit /\ [][GroupNext]_vars

----------------------------------------------------------------------------
(* The file list and the data file of the matching loop *)

TextSong == <<83, 111, 110, 103>>
TextSongAlt == <<83, 111, 110, 103, 95, 65, 108, 116>>             \* "Song_Alt"
TextMix == <<77, 105, 120>>
TextOld == <<79, 108, 100>>

\* "song_alt_mix.wav", "Other.wav", "SONG_x.wav"
AudioNames ==
    <<<<115, 111, 110, 103, 95, 97, 108, 116, 95, 109, 105, 120, 46, 119, 97, 118>>,
      <<79, 116, 104, 101, 114, 46, 119, 97, 118>>,
      <<83, 79, 78, 71, 95, 120, 46, 119, 97, 118>>>>

FilePaths == <<"f1.wav", "f2.wav", "f3.wav", "f4.wav">>

\* the entry of main.py:59-69 and :93-103 for the n-th audio file, with the
\* six fields blank, or as an earlier run or edit left them
FileInfo(n, stale) ==
    [k \in MetadataKeys \cup {"File Path", "Uploaded Audio", "Filename From Data"} |->
        IF k = "File Path" THEN FilePaths[n]
        ELSE IF k = "Uploaded Audio" THEN AudioNames[((n - 1) % 3) + 1]
        ELSE IF k = "Filename From Data" THEN <<>>
        ELSE IF stale THEN TextOld
        ELSE <<>>]

\* the lists of at most n different files, in any order
FileLists(n) ==
    UNION {{fl \in [1..k -> {FileInfo(i, st) : i \in 1..n, st \in BOOLEAN}] :
              \A i, j \in 1..k : i # j => fl[i]["File Path"] # fl[j]["File Path"]} :
           k \in 0..n}

\* the data lines: title and source program differ, two lines share a title,
\* one has none
MatchRows ==
    {MakeRow(MinCells, (0 :> StrCell(p[3]) @@ 1 :> StrCell(p[1]) @@ 2 :> StrCell(p[2])
                        @@ 4 :> IntCell(120) @@ 12 :> StrCell(TextJane)
                        @@ 14 :> StrCell(<<68, 111, 101>>) @@ 18 :> StrCell(TextAcmePub)
                        @@ 22 :> StrCell(<<81>>))) :
        p \in {<<TextSong, <<80, 49>>, <<>>>>,
                <<TextSong, <<80, 50>>, <<120>>>>,
                <<TextSongAlt, <<80, 51>>, TextSong>>,
                <<<<>>, <<80, 52>>, TextMix>>,
                <<TextMix, <<80, 53>>, TextMix>>}}

HeaderRow == MakeRow(MinCells, (1 :> StrCell(<<84, 105, 116, 108, 101>>)))

----------------------------------------------------------------------------
(* The script of main.py up to the table, run again on every interaction *)

MatchInit ==
    /\ pc = "script"
    /\ wav_files \in FileLists(MaxFiles)
    /\ format \in {"csv", ""}
    /\ \E k \in 0..MaxRecords : \E rs \in [1..k -> MatchRows], header \in BOOLEAN :
          sheets = IF format = ""  THEN <<>>
                   ELSE IF header THEN <<<<HeaderRow>> \o rs>>
                   ELSE <<<<>>>>
    /\ metadata_list = <<>>
    /\ parse_error = ""
    /\ row = <<>>
    /\ writers = <<>>
    /\ publishers = <<>>
    /\ BuildIdle
    /\ SpliceIdle

\* main.py:106-163 with a data file uploaded: parse it, match every file,
\* sort the list
RunScript ==
    /\ pc \in {"script", "matched", "rendered", "edited"}
    /\ format # ""
    /\ wav_files # <<>>
    /\ LET r == parse_spreadsheet(format, sheets)
       IN  /\ metadata_list' = r.list
           /\ parse_error' = r.error
           /\ wav_files' =
                 IF r.error = ""
                 THEN Sorted([i \in 1..Len(wav_files) |-> MatchFile(wav_files[i], r.list)])
                 ELSE Sorted(wav_files)
           /\ pc' = IF r.error = "" THEN "matched" ELSE "rendered"
    /\ UNCHANGED <<format, sheets, row, writers, publishers, buildVars, spliceVars, embedVars>>

\* main.py:160-163 with no data file, or with no audio file: the list is
\* sorted when it is not empty
RunScriptNoMatch ==
    /\ pc \in {"script", "matched", "rendered", "edited"}
    /\ format = "" \/ wav_files = <<>>
    /\ wav_files' = Sorted(wav_files)
    /\ pc' = "rendered"
    /\ UNCHANGED <<decodeVars, row, writers, publishers, buildVars, spliceVars, embedVars>>

\* main.py:169-184: the user edits a title in the table
EditCell ==
    /\ pc \in {"matched", "rendered"}
    /\ \E i \in 1..Len(wav_files), t \in {<<>>, TextOld} :
          /\ wav_files[i]["Track Title"] # t
          /\ wav_files' = [wav_files EXCEPT ![i]["Track Title"] = t]
    /\ pc' = "edited"
    /\ UNCHANGED <<decodeVars, row, writers, publishers, buildVars, spliceVars, embedVars>>

MatchNext == RunScript \/ RunScriptNoMatch \/ EditCell

SpecMatch == MatchInit /\ [][MatchNext]_vars

----------------------------------------------------------------------------
(* embed.py: embed_metadata, and main.py: the embed loop *)

TagId3 == <<105, 100, 51, 32>>                                     \* "id3 "
TagFailed == "tag write failed"

\* the temporary files of one embed_metadata call
TempPaths == {"temp_in", "temp_riff", "temp_final", "final_output"}

\* metadata_dict of main.py:246
EmbedDict(file_info) == [i \in 1..6 |-> <<AppKeyOrder[i], file_info[AppKeyOrder[i]]>>]

\* add_id3_metadata: what audio.save() leaves in the file.  The tag library
\* is not part of the repository: its frames are kept as the bytes of the
\* title in a chunk of their own, behind the file's other chunks.
Tagged(content, d) ==
    content \o TagId3 \o ToBytes4(Len(Utf8(Get(d, "Track Title"))))
    \o Utf8(Get(d, "Track Title"))

\* a pipeline that splices the file where it lies
SpliceInPlace(original_path) == original_path

\* output_wav_path of the add_riff_metadata call, embed.py:112-113
SpliceOutputPath(original_path) == "temp_riff"

\* file_info of the round of the loop that is running
Current == wav_files[idx]

\* main.py:233-235: the button is pressed with no file in the list
EmbedNoFiles ==
    /\ pc = "embed_loop"
    /\ wav_files = <<>>
    /\ pc' = "done"
    /\ UNCHANGED <<buildVars, spliceVars, decodeVars, groupVars, wav_files, embedVars>>

\* main.py:239-241: the next file is read by FileWrapper
OpenFile ==
    /\ pc = "embed_loop"
    /\ idx <= Len(wav_files)
    /\ fs[Current["File Path"]] # NoFile
    /\ file_data' = fs[Current["File Path"]]
    /\ pc' = "temp_in"
    /\ UNCHANGED <<buildVars, spliceVars, decodeVars, groupVars, wav_files, fs,
                   original_files, idx, processed_data, errors, embedding_completed>>

\* main.py:241: FileWrapper's open raises, outside the try of main.py:242
OpenFileFails ==
    /\ pc = "embed_loop"
    /\ idx <= Len(wav_files)
    /\ fs[Current["File Path"]] = NoFile
    /\ pc' = "crashed"
    /\ UNCHANGED <<buildVars, spliceVars, decodeVars, groupVars, wav_files, embedVars>>

\* embed.py:107-109
WriteTempIn ==
    /\ pc = "temp_in"
    /\ fs' = [fs EXCEPT !["temp_in"] = file_data]
    /\ pc' = "add_riff"
    /\ UNCHANGED <<buildVars, spliceVars, decodeVars, groupVars, wav_files,
                   original_files, idx, file_data, processed_data, errors,
                   embedding_completed>>

\* embed.py:112-113, add_riff_metadata returns
AddRiffReturns ==
    /\ pc = "add_riff"
    /\ LET r == Splice(fs["temp_in"], ListChunk(EmbedDict(Current)))
       IN  /\ r.error = ""
           /\ fs' = [fs EXCEPT ![SpliceOutputPath(Current["File Path"])] = r.output]
    /\ pc' = "copy"
    /\ UNCHANGED <<buildVars, spliceVars, decodeVars, groupVars, wav_files,
                   original_files, idx, file_data, processed_data, errors,
                   embedding_completed>>

\* embed.py:112-113, add_riff_metadata raises; main.py:255-256 collects it.
\* temp_riff_path was created empty, and both temporary files stay.
AddRiffRaises ==
    /\ pc = "add_riff"
    /\ LET r == Splice(fs["temp_in"], ListChunk(EmbedDict(Current)))
       IN  /\ r.error # ""
           /\ errors' = Append(errors, <<Current["File Path"], r.error>>)
    /\ fs' = [fs EXCEPT ![SpliceOutputPath(Current["File Path"])] = <<>>]
    /\ idx' = idx + 1
    /\ pc' = "embed_loop"
    /\ UNCHANGED <<buildVars, spliceVars, decodeVars, groupVars, wav_files,
                   original_files, file_data, processed_data, embedding_completed>>

\* embed.py:116-118
CopyToFinal ==
    /\ pc = "copy"
    /\ fs' = [fs EXCEPT !["temp_final"] = fs[SpliceOutputPath(Current["File Path"])]]
    /\ pc' = "add_id3"
    /\ UNCHANGED <<buildVars, spliceVars, decodeVars, groupVars, wav_files,
                   original_files, idx, file_data, processed_data, errors,
                   embedding_completed>>

\* embed.py:120, add_id3_metadata returns
AddId3Returns ==
    /\ pc = "add_id3"
    /\ fs' = [fs EXCEPT !["temp_final"] = Tagged(fs["temp_final"], EmbedDict(Current))]
    /\ pc' = "rename"
    /\ UNCHANGED <<buildVars, spliceVars, decodeVars, groupVars, wav_files,
                   original_files, idx, file_data, processed_data, errors,
                   embedding_completed>>

\* embed.py:120, add_id3_metadata raises (the tag library refuses the file);
\* main.py:255-256 collects it
AddId3Raises ==
    /\ pc = "add_id3"
    /\ errors' = Append(errors, <<Current["File Path"], TagFailed>>)
    /\ idx' = idx + 1
    /\ pc' = "embed_loop"
    /\ UNCHANGED <<buildVars, spliceVars, decodeVars, groupVars, wav_files, fs,
                   original_files, file_data, processed_data, embedding_completed>>

\* embed.py:122-129
RenameFinal ==
    /\ pc = "rename"
    /\ fs' = [p \in DOMAIN fs |->
                IF p \in {"temp_in", SpliceOutputPath(Current["File Path"]), "temp_final"}
                THEN NoFile
                ELSE IF p = "final_output" THEN fs["temp_final"]
                ELSE fs[p]]
    /\ pc' = "read_final"
    /\ UNCHANGED <<buildVars, spliceVars, decodeVars, groupVars, wav_files,
                   original_files, idx, file_data, processed_data, errors,
                   embedding_completed>>

\* main.py:250-251
ReadFinal ==
    /\ pc = "read_final"
    /\ processed_data' = fs["final_output"]
    /\ pc' = "write_original"
    /\ UNCHANGED <<buildVars, spliceVars, decodeVars, groupVars, wav_files, fs,
                   original_files, idx, file_data, errors, embedding_completed>>

\* main.py:252-253
WriteOriginal ==
    /\ pc = "write_original"
    /\ fs' = [fs EXCEPT ![Current["File Path"]] = processed_data]
    /\ pc' = "unlink"
    /\ UNCHANGED <<buildVars, spliceVars, decodeVars, groupVars, wav_files,
                   original_files, idx, file_data, processed_data, errors,
                   embedding_completed>>

\* main.py:254, and on to the next file
UnlinkFinal ==
    /\ pc = "unlink"
    /\ fs' = [fs EXCEPT !["final_output"] = NoFile]
    /\ idx' = idx + 1
    /\ pc' = "embed_loop"
    /\ UNCHANGED <<buildVars, spliceVars, decodeVars, groupVars, wav_files,
                   original_files, file_data, processed_data, errors,
                   embedding_completed>>

\* main.py:257-264: the loop is over
Report ==
    /\ pc = "embed_loop"
    /\ wav_files # <<>>
    /\ idx > Len(wav_files)
    /\ embedding_completed' = (errors = <<>>)
    /\ pc' = "done"
    /\ UNCHANGED <<buildVars, spliceVars, decodeVars, groupVars, wav_files, fs,
                   original_files, idx, file_data, processed_data, errors>>

----------------------------------------------------------------------------
(* The files of an embed run *)

\* a WAV file of a fmt and a data chunk; the same with the RIFF literal
\* spoilt; a WAV file of a data chunk only; no file
WavOk ==
    TagRIFF \o ToBytes4(24) \o TagWAVE \o TagFmt \o ToBytes4(2) \o <<1, 0>>
    \o TagData \o ToBytes4(2) \o <<7, 9>>

FileContents ==
    {WavOk,
     <<82, 73, 70, 88>> \o SubSeq(WavOk, 5, Len(WavOk)),
     TagRIFF \o ToBytes4(14) \o TagWAVE \o TagData \o ToBytes4(2) \o <<7, 9>>,
     NoFile}

EmbedInit ==
    /\ pc = "embed_loop"
    /\ \E k \in 0..MaxFiles :
          /\ wav_files \in [1..k -> {FileInfo(i, st) : i \in 1..k, st \in BOOLEAN}]
          /\ \A i \in 1..k : wav_files[i]["File Path"] = FilePaths[i]
          /\ \E contents \in [1..k -> FileContents] :
                fs = [p \in {FilePaths[i] : i \in 1..k} \cup TempPaths |->
                        IF p \in TempPaths THEN NoFile
                        ELSE contents[CHOOSE i \in 1..k : FilePaths[i] = p]]
    /\ original_files = fs
    /\ idx = 1
    /\ file_data = <<>>
    /\ processed_data = <<>>
    /\ errors = <<>>
    /\ embedding_completed = FALSE
    /\ BuildIdle
    /\ wav_data = <<>>
    /\ output_wav = NoFile
    /\ error = ""
    /\ pos = None
    /\ fmt_end = None
    /\ DecodeIdle
    /\ row = <<>>
    /\ writers = <<>>
    /\ publishers = <<>>

EmbedNext ==
    \/ EmbedNoFiles
    \/ OpenFile
    \/ OpenFileFails
    \/ WriteTempIn
    \/ AddRiffReturns
    \/ AddRiffRaises
    \/ CopyToFinal
    \/ AddId3Returns
    \/ AddId3Raises
    \/ RenameFinal
    \/ ReadFinal
    \/ WriteOriginal
    \/ UnlinkFinal
    \/ Report

SpecEmbed == EmbedInit /\ [][EmbedNext]_vars

----------------------------------------------------------------------------
(* Properties of the builder *)

\* the bytes 5..8 of a chunk or entry, read as its declared size
DeclaredSize(b) == FromBytes(SubSeq(b, 5, 8))

\* the entries a build emitted under this tag
EntriesTagged(tag) == {i \in 1..Len(entries) : entries[i].tag = tag}

\* C1: whatever the mapping, the built LIST chunk begins with "LIST" and its
\* little-endian size field is the length of the whole chunk minus 8.
C1_ListHeaderAndSize ==
    pc = "built" =>
        /\ Len(list_chunk) >= 12
        /\ SubSeq(list_chunk, 1, 4) = TagLIST
        /\ DeclaredSize(list_chunk) = Len(list_chunk) - 8
        /\ list_chunk = SubSeq(list_chunk, 1, 8) \o TagINFO \o metadata_bytes

\* all six fields given, one of them of odd UTF-8 length, so a pad byte is in
\* the chunk
C1_Witness ==
    /\ pc = "built"
    /\ Len(metadata_dict) = 6
    /\ \E i \in 1..6 : Len(Utf8(metadata_dict[i][2])) % 2 = 1
    /\ Len(list_chunk) > 12

\* C2: every emitted entry declares the UTF-8 length of its value without the
\* pad byte: an odd length n is declared as n, not n + 1.
C2_EntrySizeExcludesPad ==
    pc = "built" =>
        \A i \in 1..Len(entries) :
            DeclaredSize(entries[i].bytes) = Len(Utf8(entries[i].value))

\* C3: INAM, IART, IALB are emitted for Track Title, Composers, Source Program
\* exactly when the field is in the mapping and its value is not empty.
C3_EmittedIffNonEmpty ==
    pc = "built" =>
        \A p \in {<<"Track Title", TagINAM>>, <<"Composers", TagIART>>,
                  <<"Source Program", TagIALB>>} :
            (EntriesTagged(p[2]) # {})
                <=> (Has(metadata_dict, p[1]) /\ Get(metadata_dict, p[1]) # <<>>)

\* C4: ICMT is emitted exactly when BPM, Key or Publishers is in the mapping,
\* once, and its value is the "Label: value" texts of the fields that are in
\* the mapping, in the order BPM, Key, Publishers, joined by " | ", whatever
\* the order of the mapping's keys.
C4_CommentOfPresentFields ==
    pc = "built" =>
        LET label == [k \in {"BPM", "Key", "Publishers"} |->
                        CASE k = "BPM" -> LabelBPM
                          [] k = "Key" -> LabelKey
                          [] k = "Publishers" -> LabelPublishers]
            present == SelectSeq(<<"BPM", "Key", "Publishers">>,
                                 LAMBDA k : Has(metadata_dict, k))
            texts == [i \in 1..Len(present) |->
                        label[present[i]] \o Get(metadata_dict, present[i])]
        IN  /\ (EntriesTagged(TagICMT) # {}) <=> (present # <<>>)
            /\ \A i \in EntriesTagged(TagICMT) :
                    /\ i = Len(entries)
                    /\ entries[i].value = Join(CommentSep, texts)

\* a mapping that holds Key before BPM, with different values, was built
C4_Witness ==
    /\ pc = "built"
    /\ \E i, j \in 1..Len(metadata_dict) :
          /\ i < j
          /\ metadata_dict[i][1] = "Key"
          /\ metadata_dict[j][1] = "BPM"
          /\ metadata_dict[i][2] # metadata_dict[j][2]
    /\ ~Has(metadata_dict, "Publishers")
    /\ EntriesTagged(TagICMT) # {}

----------------------------------------------------------------------------
(* Properties of the splice *)

\* the 4-byte id and the declared size of the chunk header at offset p
IdAt(wav, p) == SubSeq(wav, p + 1, p + 4)
SizeAt(wav, p) == FromBytes(SubSeq(wav, p + 5, p + 8))

RECURSIVE Walk(_, _)
\* the offsets at which a chunk walk from offset p reads a whole header, up to
\* and with the first "fmt " header
Walk(wav, p) ==
    IF p + 8 > Len(wav) THEN <<>>
    ELSE IF IdAt(wav, p) = TagFmt THEN <<p>>
    ELSE <<p>> \o Walk(wav, p + 8 + SizeAt(wav, p))

Last(s) == s[Len(s)]

MeetsFmt(wav) == Walk(wav, 12) # <<>> /\ IdAt(wav, Last(Walk(wav, 12))) = TagFmt

StartsRiffWave(wav) ==
    Len(wav) >= 12 /\ SubSeq(wav, 1, 4) = TagRIFF /\ SubSeq(wav, 9, 12) = TagWAVE

\* C5: for a RIFF/WAVE buffer whose first fmt chunk, found by the walk from
\* offset 12, ends inside the buffer at fmt_end, the output is
\* wav[0:fmt_end] + chunk + wav[fmt_end:]; the walk over the output meets fmt at
\* the same offset and the inserted chunk begins at fmt_end.
C5_SpliceAfterFmt ==
    (pc = "returned" /\ StartsRiffWave(wav_data) /\ MeetsFmt(wav_data)) =>
        LET at == Last(Walk(wav_data, 12))
            e == at + 8 + SizeAt(wav_data, at)
            n == Len(list_chunk)
        IN  e <= Len(wav_data) =>
              /\ error = ""
              /\ fmt_end = e
              /\ output_wav # NoFile
              /\ Len(output_wav) = Len(wav_data) + n
              /\ SubSeq(output_wav, 1, e) = SubSeq(wav_data, 1, e)
              /\ SubSeq(output_wav, e + 1, e + n) = list_chunk
              /\ SubSeq(output_wav, e + n + 1, Len(output_wav))
                    = SubSeq(wav_data, e + 1, Len(wav_data))
              /\ MeetsFmt(output_wav)
              /\ Last(Walk(output_wav, 12)) = at
              /\ at + 8 + SizeAt(output_wav, at) = e
              /\ IdAt(output_wav, e) = TagLIST

\* fmt is the second chunk, of odd size, ends the buffer, and a chunk of
\* entries went in behind it
C5_Witness ==
    /\ pc = "returned"
    /\ error = ""
    /\ pos > 12
    /\ fmt_end = Len(wav_data)
    /\ (fmt_end - pos) % 2 = 1
    /\ Len(list_chunk) > 12
    /\ Len(output_wav) = Len(wav_data) + Len(list_chunk)

\* C6: a buffer whose bytes 0-4 are not "RIFF" or whose bytes 8-12 are not
\* "WAVE" is refused as not a WAV file; a RIFF/WAVE buffer on which the walk
\* from offset 12 runs off the end without meeting "fmt " is refused for the
\* missing chunk; neither leaves an output.
C6_SpliceErrors ==
    pc = "returned" =>
        /\ ~StartsRiffWave(wav_data) => (error = NotWav /\ output_wav = NoFile)
        /\ (StartsRiffWave(wav_data) /\ ~MeetsFmt(wav_data))
              => (error = NoFmt /\ output_wav = NoFile)

\* the walk passed a chunk and ran off the end of a RIFF/WAVE buffer
C6_Witness ==
    /\ pc = "returned"
    /\ error = NoFmt
    /\ StartsRiffWave(wav_data)
    /\ pos > 12
    /\ output_wav = NoFile

----------------------------------------------------------------------------
(* Properties of the decoder *)

\* the data rows of the file: every row of every sheet, or the lines after
\* the header line
DataRows ==
    IF format = "csv" THEN SubSeq(Concat(sheets), 2, Len(Concat(sheets)))
    ELSE Concat(sheets)

\* C7: decoding returns one record for each data row of at least 34 cells and
\* none for a shorter row, in the order of the rows, and a short row raises
\* no error.
C7_OneRecordPerFullRow ==
    (pc = "parsed" /\ format \in {"xlsx", "csv"}) =>
        LET kept == SelectSeq(DataRows, LAMBDA r : Len(r) >= 34)
        IN  /\ (format = "xlsx" \/ Concat(sheets) # <<>>) => parse_error = ""
            /\ Len(metadata_list) = Len(kept)
            /\ \A i \in 1..Len(kept) :
                  /\ metadata_list[i].filename_from_data = kept[i][1].text
                  /\ metadata_list[i].track_title = kept[i][2].text

\* a csv of a 34-cell header and two lines, of 33 and of exactly 34 cells: one
\* record, the second line's
C7_Witness ==
    /\ pc = "parsed"
    /\ format = "csv"
    /\ Len(DataRows) = 2
    /\ Len(Concat(sheets)[1]) = 34
    /\ Len(DataRows[1]) = 33
    /\ Len(DataRows[2]) = 34
    /\ DataRows[1][2] # DataRows[2][2]
    /\ Len(metadata_list) = 1
    /\ metadata_list[1].track_title = DataRows[2][2].text

\* C8: a writer entry exists exactly when first, middle or last is non-empty,
\* and is the non-empty name parts, then "(PRO)", "[CAE]", "Share%" for the
\* non-empty ones, all joined by single spaces; a publisher entry exists
\* exactly when name is non-empty, with the same tail.
C8_GroupFormat ==
    pc = "groups_parsed" =>
        LET f(i) == _safe_get(row, i)
            tail(pro, cae, share) ==
                (IF pro # <<>> THEN <<<<40>> \o pro \o <<41>>>> ELSE <<>>)
                \o (IF cae # <<>> THEN <<<<91>> \o cae \o <<93>>>> ELSE <<>>)
                \o (IF share # <<>> THEN <<share \o <<37>>>> ELSE <<>>)
            names == SelectSeq(<<f(12), f(13), f(14)>>, LAMBDA t : t # <<>>)
        IN  /\ writers = IF names = <<>> THEN <<>>
                         ELSE <<Join(<<32>>, names \o tail(f(15), f(16), f(17)))>>
            /\ publishers = IF f(18) = <<>> THEN <<>>
                            ELSE <<Join(<<32>>, <<f(18)>> \o tail(f(19), f(20), f(21)))>>
            /\ (<<f(12), f(13), f(14), f(15), f(16), f(17)>>
                   = <<TextJane, <<>>, <<>>, TextASCAP, <<>>, Text50>>)
                => writers = <<<<74, 97, 110, 101, 32, 40, 65, 83, 67, 65, 80, 41,
                                 32, 53, 48, 37>>>>
            /\ (<<f(18), f(19), f(20), f(21)>> = <<TextAcmePub, <<>>, Text123, <<>>>>)
                => publishers = <<<<65, 99, 109, 101, 32, 80, 117, 98, 32, 91, 49,
                                    50, 51, 93>>>>

\* the two examples: "Jane (ASCAP) 50%" and "Acme Pub [123]"
C8_Witness ==
    /\ pc = "groups_parsed"
    /\ writers = <<<<74, 97, 110, 101, 32, 40, 65, 83, 67, 65, 80, 41, 32, 53, 48, 37>>>>
    /\ publishers = <<<<65, 99, 109, 101, 32, 80, 117, 98, 32, 91, 49, 50, 51, 93>>>>

----------------------------------------------------------------------------
(* Properties of the matching loop *)

\* the records whose lower-cased title and an underscore occur in the
\* lower-cased name
TitleHits(name) ==
    {j \in 1..Len(metadata_list) :
        IsSubstring(Lower(metadata_list[j].track_title) \o <<95>>, Lower(name))}

\* C9: after matching, each file holds the six fields of the first record, in
\* record order, whose lower-cased title and an underscore occur in its
\* lower-cased name, and six blanks when no record does, whatever it held.
C9_FirstTitleMatch ==
    pc = "matched" =>
        \A i \in 1..Len(wav_files) :
            LET f == wav_files[i]
                hits == TitleHits(f["Uploaded Audio"])
            IN  IF hits = {}
                THEN \A k \in {"Track Title", "Source Program", "BPM", "Key",
                                "Composers", "Publishers"} : f[k] = <<>>
                ELSE LET m == metadata_list[CHOOSE j \in hits : \A h \in hits : j <= h]
                     IN  /\ f["Track Title"] = m.track_title
                         /\ f["Source Program"] = m.source_program
                         /\ f["BPM"] = m.bpm
                         /\ f["Key"] = m.key
                         /\ f["Composers"] = Join(<<44, 32>>, m.writers)
                         /\ f["Publishers"] = Join(<<44, 32>>, m.publishers)

\* "song_alt_mix.wav" took the first record, "Song", though the second,
\* "Song_Alt", matches it too and is longer; the other file matched no record
\* and lost what it held
C9_Witness ==
    /\ pc = "matched"
    /\ Len(metadata_list) = 2
    /\ metadata_list[1].track_title = TextSong
    /\ metadata_list[2].track_title = TextSongAlt
    /\ Len(wav_files) = 2
    /\ \E i, j \in 1..2 :
          /\ wav_files[i]["Uploaded Audio"] = AudioNames[1]
          /\ TitleHits(wav_files[i]["Uploaded Audio"]) = {1, 2}
          /\ wav_files[i]["Track Title"] = TextSong
          /\ wav_files[i]["Source Program"] = metadata_list[1].source_program
          /\ wav_files[j]["Uploaded Audio"] = AudioNames[2]
          /\ TitleHits(wav_files[j]["Uploaded Audio"]) = {}
          /\ wav_files[j]["Track Title"] = <<>>

----------------------------------------------------------------------------
(* Properties of the embed loop *)

\* the complete output for the i-th file: its bytes as the run found them,
\* with the LIST chunk spliced in and the tag written
CompleteOutput(i) ==
    Tagged(Splice(original_files[wav_files[i]["File Path"]],
                  ListChunk(EmbedDict(wav_files[i]))).output,
           EmbedDict(wav_files[i]))

\* the i-th file is named by a collected error
Failed(i) == \E e \in 1..Len(errors) : errors[e][1] = wav_files[i]["File Path"]

\* C10: an audio file holds the bytes the run found in it until its complete
\* output (splice, then tag write) lies in a file of its own; it is then
\* replaced by exactly that output; a file whose splice or tag write failed
\* is left as it was.
C10_OriginalKeptUntilBuilt ==
    \A i \in 1..Len(wav_files) :
        LET p == wav_files[i]["File Path"]
        IN  /\ fs[p] # original_files[p] =>
                  /\ ~Failed(i)
                  /\ original_files[p] # NoFile
                  /\ fs[p] = CompleteOutput(i)
                  /\ i < idx \/ (i = idx /\ pc = "unlink")
                  /\ (i = idx /\ pc = "unlink") => fs["final_output"] = fs[p]
            /\ Failed(i) => fs[p] = original_files[p]
            /\ (i = idx /\ pc \in {"temp_in", "add_riff", "copy", "add_id3",
                                    "rename", "read_final", "write_original"})
                  => fs[p] = original_files[p]

\* the run is over: the first file's tag write failed and it is as it was, the
\* second was replaced by its complete output
C10_Witness ==
    /\ pc = "done"
    /\ Len(wav_files) = 2
    /\ errors = <<<<"f1.wav", TagFailed>>>>
    /\ fs["f1.wav"] = original_files["f1.wav"]
    /\ fs["f2.wav"] # original_files["f2.wav"]
    /\ fs["f2.wav"] = CompleteOutput(2)

----------------------------------------------------------------------------
(* Properties of the batch *)

\* the collected errors that name the i-th file
ErrorsNaming(i) ==
    {e \in 1..Len(errors) : errors[e][1] = wav_files[i]["File Path"]}

\* the place in the list of the file an error names
FileOf(e) == CHOOSE i \in 1..Len(wav_files) : wav_files[i]["File Path"] = errors[e][1]

\* the i-th file cannot be processed as the run found it: it cannot be read,
\* or the splice refuses it
CannotProcess(i) ==
    LET content == original_files[wav_files[i]["File Path"]]
    IN  \/ content = NoFile
        \/ Splice(content, ListChunk(EmbedDict(wav_files[i]))).error # ""

\* the run has stopped
Stopped == pc \in {"done", "crashed"}

\* C11: a failure on one file does not abort the batch.  The files are taken
\* once each in list order; a run that has stopped has taken every file of the
\* list; a file taken either holds its complete output or is named by exactly
\* one collected error, and a file that cannot be processed is named by one;
\* the errors stand in list order; the batch is flagged complete only if no
\* error was collected.
C11_BatchNotAborted ==
    /\ idx \in 1..(Len(wav_files) + 1)
    /\ Stopped => idx = Len(wav_files) + 1
    /\ \A i \in 1..Len(wav_files) :
          /\ Cardinality(ErrorsNaming(i)) <= 1
          /\ i >= idx => ErrorsNaming(i) = {}
          /\ i < idx =>
                \/ Cardinality(ErrorsNaming(i)) = 1
                \/ fs[wav_files[i]["File Path"]] = CompleteOutput(i)
          /\ (i < idx /\ CannotProcess(i)) => Cardinality(ErrorsNaming(i)) = 1
    /\ \A e \in 1..Len(errors) :
          /\ \E i \in 1..Len(wav_files) : wav_files[i]["File Path"] = errors[e][1]
          /\ \A d \in 1..(e - 1) : FileOf(d) < FileOf(e)
    /\ embedding_completed => (pc = "done" /\ errors = <<>>)

----------------------------------------------------------------------------
(* Properties of the chunk scan *)

RECURSIVE PaddedWalk(_, _)
\* the offsets of the chunk headers of a padded file, up to and with the first
\* "fmt " header: a chunk at offset p with declared size s is followed by the
\* chunk at p + 8 + s + (s mod 2)
PaddedWalk(wav, p) ==
    IF p + 8 > Len(wav) THEN <<>>
    ELSE IF IdAt(wav, p) = TagFmt THEN <<p>>
    ELSE <<p>> \o PaddedWalk(wav, p + 8 + SizeAt(wav, p) + (SizeAt(wav, p) % 2))

PaddedMeetsFmt(wav) ==
    PaddedWalk(wav, 12) # <<>> /\ IdAt(wav, Last(PaddedWalk(wav, 12))) = TagFmt

\* a chunk of odd declared size stands before the fmt chunk
OddBeforeFmt(wav) ==
    \E n \in 1..(Len(PaddedWalk(wav, 12)) - 1) :
        SizeAt(wav, PaddedWalk(wav, 12)[n]) % 2 = 1

\* C12: the scan steps over header, payload and the pad byte of an odd-sized
\* chunk: in a RIFF/WAVE buffer whose chunks are padded, the fmt chunk is found
\* at its true offset, the one the padded walk reaches, and fmt_end is the end
\* of its payload.
C12_ScanSkipsPad ==
    (pc = "returned" /\ StartsRiffWave(wav_data) /\ PaddedMeetsFmt(wav_data)) =>
        LET at == Last(PaddedWalk(wav_data, 12))
        IN  /\ error = ""
            /\ pos = at
            /\ fmt_end = at + 8 + SizeAt(wav_data, at)

----------------------------------------------------------------------------
(* Properties of the writer groups *)

\* the column at which the g-th writer group starts, g from 0
GroupOffset(g) == 12 + 10 * g

\* the g-th writer group is read: its sixth cell lies within the row
GroupRead(g) == GroupOffset(g) + 5 < Len(row)

\* the g-th writer group names a writer
GroupNamed(g) ==
    \E k \in 0..2 : _safe_get(row, GroupOffset(g) + k) # <<>>

\* the entry of the g-th writer group: the non-empty name parts, then "(PRO)",
\* "[CAE]" and "Share%" for the non-empty ones, joined by single spaces
GroupEntry(g) ==
    LET f(k) == _safe_get(row, GroupOffset(g) + k)
    IN  Join(<<32>>,
             SelectSeq(<<f(0), f(1), f(2)>>, LAMBDA t : t # <<>>)
             \o (IF f(3) # <<>> THEN <<<<40>> \o f(3) \o <<41>>>> ELSE <<>>)
             \o (IF f(4) # <<>> THEN <<<<91>> \o f(4) \o <<93>>>> ELSE <<>>)
             \o (IF f(5) # <<>> THEN <<f(5) \o <<37>>>> ELSE <<>>))

\* the groups, of the five at offsets 12, 22, 32, 42 and 52, that are read and
\* name a writer, in increasing order
Contributing == SelectSeq(<<0, 1, 2, 3, 4>>, LAMBDA g : GroupRead(g) /\ GroupNamed(g))

\* C13: the writers of a row of L cells are the entries, in increasing group
\* order, of the groups at offsets 12, 22, 32, 42 and 52 whose cells
\* offset..offset+5 lie within the row (offset + 5 < L) and that have a
\* non-empty first, middle or last name; there are never more than 5, and a
\* 34-cell row takes them from the groups at 12 and 22 only.
C13_WriterGroups ==
    pc \in {"parse_publishers", "groups_parsed"} =>
        /\ writers = [n \in 1..Len(Contributing) |-> GroupEntry(Contributing[n])]
        /\ Len(writers) <= 5
        /\ Len(row) = MinCells =>
              /\ Len(writers) <= 2
              /\ \A n \in 1..Len(Contributing) : Contributing[n] \in {0, 1}

\* a row long enough for six groups, all six named: the first five are the
\* writers, the sixth is not read
C13_Witness ==
    /\ pc = "groups_parsed"
    /\ Len(row) >= 68
    /\ \A g \in 0..5 : _safe_get(row, GroupOffset(g)) = WriterName(g)
    /\ Len(writers) = 5
    /\ writers[5] = WriterName(4) \o <<32, 53, 48, 37>>

=============================================================================
